---- MODULE Spec2Model ----
(***************************************************************************)
(* Model of chemprop/data/data.py: SparseNoneArray, MoleculeDatapoint and  *)
(* MoleculeDataset.                                                        *)
(*                                                                         *)
(* Representation.  Python's None is the empty tuple and a present value x *)
(* is the one-element tuple <<x>>, so optional values stay comparable.     *)
(* Floats are integers (the arithmetic of the scaler is exact on the       *)
(* inputs used where a quotient is an integer, and floors otherwise).      *)
(* A call's outcome is [raised |-> exception name or "none", value |-> the *)
(* returned object wrapped as an optional].                                *)
(***************************************************************************)
EXTENDS Integers, Sequences, FiniteSets, TLC

VARIABLES
    sna,      \* a SparseNoneArray object: [length, targets]
    src,      \* the list it was constructed from
    got,      \* the last __getitem__ call on sna: [i, raised, value]
    dp,       \* outcome of the last MoleculeDatapoint(...) call
    dpIn,     \* the arguments of that call
    data,     \* MoleculeDataset.data, per dataset object
    scaler,   \* MoleculeDataset.scaler, per dataset object
    rng,      \* state of the process-wide generator of module random
    last,     \* per dataset object, the last method call and what it returned
    steps     \* number of dataset method calls made so far

vars == <<sna, src, got, dp, dpIn, data, scaler, rng, last, steps>>

sparseVars == <<sna, src, got>>
datapointVars == <<dp, dpIn>>
datasetVars == <<data, scaler, rng, last, steps>>

----------------------------------------------------------------------------
(* Bounds *)

MaxLen == 3          \* longest target list / largest dataset
MaxOps == 3          \* dataset method calls per behaviour
MaxChunks == 3       \* largest num_chunks
RngMod == 8          \* number of generator states

----------------------------------------------------------------------------
(* Python values *)

None == <<>>
Some(x) == <<x>>

Return(v) == [raised |-> "none", value |-> <<v>>]
Raise(e) == [raised |-> e, value |-> <<>>]

Range(s) == {s[k] : k \in 1..Len(s)}

SeqsUpTo(S, n) == UNION {[1..k -> S] : k \in 0..n}

----------------------------------------------------------------------------
(* SparseNoneArray *)

TargetValues == {None, Some(0), Some(1)}

\* __init__ with the filter `if x` in place of `if x is not None`
SparseNoneArrayTruthy(targets) ==
    [length |-> Len(targets),
     targets |-> [i \in {k \in 0..(Len(targets) - 1) :
                            targets[k + 1] # None /\ targets[k + 1] # Some(0)}
                    |-> targets[i + 1]]]

\* SparseNoneArray.__init__: the dict holds the entries that are not None
SparseNoneArray(targets) ==
    [length |-> Len(targets),
     targets |-> [i \in {k \in 0..(Len(targets) - 1) : targets[k + 1] # None}
                    |-> targets[i + 1]]]

\* SparseNoneArray.__len__
SparseLen(self) == self.length

\* defaultdict.__getitem__ with default factory lambda: None: a missing key
\* is inserted with the default and the default is returned
DefaultDictGet(d, i) ==
    IF i \in DOMAIN d
    THEN [value |-> d[i], dict |-> d]
    ELSE [value |-> None,
          dict |-> [k \in (DOMAIN d) \cup {i} |-> IF k = i THEN None ELSE d[k]]]

\* SparseNoneArray.__getitem__: outcome and the object afterwards
SparseGetItem(self, i) ==
    IF i >= self.length
    THEN [raised |-> "IndexError", value |-> None, self |-> self]
    ELSE LET r == DefaultDictGet(self.targets, i)
         IN [raised |-> "none", value |-> r.value,
             self |-> [self EXCEPT !.targets = r.dict]]

NoCall == [i |-> 0, raised |-> "nocall", value |-> None]

GetItem(i) ==
    LET r == SparseGetItem(sna, i)
    IN /\ sna' = r.self
       /\ got' = [i |-> i, raised |-> r.raised, value |-> r.value]
       /\ UNCHANGED src

Indices == (0 - MaxLen - 1)..(MaxLen + 1)

NextSparse ==
    /\ \E i \in Indices : GetItem(i)
    /\ UNCHANGED <<datapointVars, datasetVars>>

----------------------------------------------------------------------------
(* MoleculeDatapoint *)

MaxFields == 3       \* longest CSV line

\* A numpy array: its shape and its entries in row-major order
Array(shape, vals) == [shape |-> shape, vals |-> vals]

\* np.squeeze: drop every axis of length one
Squeeze(a) == [a EXCEPT !.shape = SelectSeq(a.shape, LAMBDA d : d # 1)]

\* The targets attribute is a list or a SparseNoneArray
ListTargets(l) == [type |-> "list", list |-> l, length |-> 0, targets |-> <<>>]
SparseTargets(s) ==
    [type |-> "SparseNoneArray", list |-> <<>>, length |-> s.length,
     targets |-> s.targets]

\* Number of atoms the collaborators see in a SMILES string
SmilesSize(smiles) ==
    CASE smiles = "C" -> 1
      [] smiles = "CC" -> 2
      [] OTHER -> 0

\* chemprop.features.morgan_fingerprint / rdkit_2d_features: a fixed-shape
\* one-dimensional vector that depends on the SMILES string alone
FeatureGenerator(fg, smiles) ==
    CASE fg = "morgan" -> Array(<<1>>, <<IF SmilesSize(smiles) > 0 THEN 1 ELSE 0>>)
      [] fg = "morgan_count" -> Array(<<1>>, <<SmilesSize(smiles)>>)
      [] fg = "rdkit_2d" -> Array(<<2>>, <<SmilesSize(smiles), 0>>)

SupportedGenerators == {"morgan", "morgan_count", "rdkit_2d"}

RECURSIVE Concatenate(_)
\* np.concatenate of one-dimensional arrays
Concatenate(arrays) ==
    IF Len(arrays) = 1 THEN arrays[1]
    ELSE LET rest == Concatenate(Tail(arrays))
         IN Array(<<arrays[1].shape[1] + rest.shape[1]>>, arrays[1].vals \o rest.vals)

\* float(x) on the strings that parse
FloatOf(x) ==
    CASE x = "1" -> 1
      [] x = "01" -> 1
      [] x = "2" -> 2

Parses(x) == x \in {"1", "01", "2"}

\* [float(x) if x != '' else None for x in fields]
ParseTargets(fields) ==
    [k \in 1..Len(fields) |-> IF fields[k] # "" THEN Some(FloatOf(fields[k])) ELSE None]

\* ndarray.tolist() of a one-dimensional array
ToList(a) == [k \in 1..Len(a.vals) |-> Some(a.vals[k])]

Datapoint(compound_name, smiles, features, targets, num_tasks) ==
    [compound_name |-> compound_name, smiles |-> smiles, features |-> features,
     targets |-> targets, num_tasks |-> num_tasks]

\* Lines 76-88 with the sparse wrapping applied in the unsupervised branch too
ResolveTargetsWrapAlways(args, line, features, predict_features, sparse) ==
    IF args # None /\ args[1].dataset_type = "unsupervised"
    THEN Return([targets |-> IF sparse THEN SparseTargets(SparseNoneArray(<<None>>))
                             ELSE ListTargets(<<None>>),
                 num_tasks |-> 1])
    ELSE IF predict_features /\ features = None
         THEN Raise("AttributeError")
    ELSE IF predict_features /\ features[1].shape = <<>>
         THEN Raise("TypeError")
    ELSE IF ~predict_features /\ \E k \in 2..Len(line) : line[k] # "" /\ ~Parses(line[k])
         THEN Raise("ValueError")
    ELSE LET targets == IF predict_features THEN ToList(features[1])
                        ELSE ParseTargets(Tail(line))
         IN Return([targets |-> IF sparse THEN SparseTargets(SparseNoneArray(targets))
                                ELSE ListTargets(targets),
                    num_tasks |-> Len(targets)])

\* Lines 76-88: the targets and num_tasks of the new object
ResolveTargets(args, line, features, predict_features, sparse) ==
    IF args # None /\ args[1].dataset_type = "unsupervised"
    THEN Return([targets |-> ListTargets(<<None>>), num_tasks |-> 1])
    ELSE IF predict_features /\ features = None
         THEN Raise("AttributeError")
    ELSE IF predict_features /\ features[1].shape = <<>>
         THEN Raise("TypeError")
    ELSE IF ~predict_features /\ \E k \in 2..Len(line) : line[k] # "" /\ ~Parses(line[k])
         THEN Raise("ValueError")
    ELSE LET targets == IF predict_features THEN ToList(features[1])
                        ELSE ParseTargets(Tail(line))
         IN Return([targets |-> IF sparse THEN SparseTargets(SparseNoneArray(targets))
                                ELSE ListTargets(targets),
                    num_tasks |-> Len(targets)])

\* Lines 57-74: the features of the new object
ResolveFeatures(smiles, features, features_generator) ==
    LET squeezed == IF features # None /\ Len(features[1].shape) > 1
                    THEN Some(Squeeze(features[1])) ELSE features
    IN IF features_generator = None THEN Return(squeezed)
       ELSE IF \E k \in 1..Len(features_generator[1]) :
                   features_generator[1][k] \notin SupportedGenerators
            THEN Raise("ValueError")
       ELSE IF features_generator[1] = <<>> THEN Raise("ValueError")
       ELSE Return(Some(Concatenate(
                [k \in 1..Len(features_generator[1])
                   |-> FeatureGenerator(features_generator[1][k], smiles)])))

\* args.features_generator, args.predict_features, args.sparse (lines 44-46)
FeaturesGeneratorOf(args) == IF args # None THEN args[1].features_generator ELSE None
PredictFeaturesOf(args) == IF args # None THEN args[1].predict_features ELSE FALSE
SparseOf(args) == IF args # None THEN args[1].sparse ELSE FALSE

\* Lines 51-88, once the arguments have passed the check of line 48
Build(line, args, features, use_compound_names) ==
    IF use_compound_names /\ line = <<>> THEN Raise("IndexError")
    ELSE LET compound_name == IF use_compound_names THEN Some(line[1]) ELSE None
             rest == IF use_compound_names THEN Tail(line) ELSE line
         IN IF rest = <<>> THEN Raise("IndexError")
            ELSE LET smiles == rest[1]
                     f == ResolveFeatures(smiles, features, FeaturesGeneratorOf(args))
                 IN IF f.raised # "none" THEN Raise(f.raised)
                    ELSE LET t == ResolveTargets(args, rest, f.value[1],
                                                 PredictFeaturesOf(args), SparseOf(args))
                         IN IF t.raised # "none" THEN Raise(t.raised)
                            ELSE Return(Datapoint(compound_name, smiles, f.value[1],
                                                  t.value[1].targets,
                                                  t.value[1].num_tasks))

\* __init__ without the check of line 48
MoleculeDatapointUnchecked(line, args, features, use_compound_names) ==
    Build(line, args, features, use_compound_names)

\* MoleculeDatapoint.__init__
MoleculeDatapoint(line, args, features, use_compound_names) ==
    IF features # None /\ FeaturesGeneratorOf(args) # None
    THEN Raise("ValueError")
    ELSE Build(line, args, features, use_compound_names)

\* MoleculeDatapoint.set_targets
DatapointSetTargets(d, targets) == [d EXCEPT !.targets = targets]

Fields == {"", "C", "1", "01"}
Lines == SeqsUpTo(Fields, MaxFields)

GeneratorLists ==
    {None, Some(<<>>), Some(<<"morgan">>), Some(<<"morgan_count", "rdkit_2d">>),
     Some(<<"morgan", "fancy">>)}

ArgsSet ==
    {None} \cup
    {Some([features_generator |-> g, predict_features |-> p, sparse |-> s,
           dataset_type |-> t]) :
        g \in GeneratorLists, p \in BOOLEAN, s \in BOOLEAN,
        t \in {"unsupervised", "regression"}}

FeatureArgs ==
    {None, Some(Array(<<2>>, <<0, 2>>)), Some(Array(<<1, 2>>, <<0, 2>>)),
     Some(Array(<<1, 1>>, <<2>>))}

NoDatapointCall == Raise("nocall")
NoDatapointArgs ==
    [line |-> <<>>, args |-> None, features |-> None, use_compound_names |-> FALSE]

Construct ==
    /\ dp = NoDatapointCall
    /\ dp' = MoleculeDatapoint(dpIn.line, dpIn.args, dpIn.features,
                               dpIn.use_compound_names)
    /\ UNCHANGED dpIn

NextDatapoint ==
    /\ Construct
    /\ UNCHANGED <<sparseVars, datasetVars>>

----------------------------------------------------------------------------
(* The generator of module random, and random.shuffle *)

\* random.seed(seed): the state depends on the seed alone
RandomSeed(seed) == seed % RngMod

\* shuffle that never seeds the generator
ReseedIgnored(r, seed) == r

\* Lines 120-121: the generator state after the optional seeding
Reseed(r, seed) == IF seed # None THEN RandomSeed(seed[1]) ELSE r

\* One step of the generator
RandomNext(r) == (5 * r + 3) % RngMod

\* Random._randbelow(n): a draw in 0..n-1 and the state after it
RandBelow(r, n) == [value |-> RandomNext(r) % n, rng |-> RandomNext(r)]

\* x[i], x[j] = x[j], x[i] on zero-based positions
Swap(x, i, j) ==
    [k \in 1..Len(x) |-> IF k = i + 1 THEN x[j + 1]
                         ELSE IF k = j + 1 THEN x[i + 1] ELSE x[k]]

RECURSIVE ShuffleFrom(_, _, _)
\* random.shuffle: for i in reversed(range(1, len(x))): j = randbelow(i + 1); swap
ShuffleFrom(x, i, r) ==
    IF i < 1 THEN [list |-> x, rng |-> r]
    ELSE LET d == RandBelow(r, i + 1)
         IN ShuffleFrom(Swap(x, i, d.value), i - 1, d.rng)

RandomShuffle(x, r) == ShuffleFrom(x, Len(x) - 1, r)

----------------------------------------------------------------------------
(* StandardScaler *)

MaxDim == 1          \* largest number of feature columns

ReplaceNanToken == 0

RECURSIVE Sum(_)
Sum(s) == IF s = <<>> THEN 0 ELSE s[1] + Sum(Tail(s))

\* Largest n with n * n <= v
Isqrt(v) == CHOOSE n \in 0..v : n * n <= v /\ (n + 1) * (n + 1) > v

Column(rows, c) == [k \in 1..Len(rows) |-> rows[k][c]]

Mean(col) == Sum(col) \div Len(col)

Std(col) ==
    LET m == Mean(col)
    IN Isqrt(Sum([k \in 1..Len(col) |-> (col[k] - m) * (col[k] - m)]) \div Len(col))

\* StandardScaler(replace_nan_token).fit(X): mean and std of every column
ScalerFit(rows, replace_nan_token) ==
    [means |-> [c \in 1..Len(rows[1]) |-> Mean(Column(rows, c))],
     stds |-> [c \in 1..Len(rows[1]) |-> Std(Column(rows, c))],
     replace_nan_token |-> replace_nan_token]

\* StandardScaler.transform(X) on a single row: (x - mean) / std per column,
\* the replace value where the quotient is undefined
ScalerTransform(sc, row) ==
    [c \in 1..Len(row) |-> IF sc.stds[c] = 0 THEN sc.replace_nan_token
                           ELSE (row[c] - sc.means[c]) \div sc.stds[c]]

----------------------------------------------------------------------------
(* MoleculeDataset *)

DatasetIds == {1, 2}

\* MoleculeDataset.__init__
MoleculeDataset(d) == [data |-> d, scaler |-> None]

\* MoleculeDataset.__len__
DatasetLen(d) == Len(d)

\* Python's seq[a:b] for 0 <= a <= b
Slice(x, a, b) ==
    LET lo == IF a < Len(x) THEN a ELSE Len(x)
        hi == IF b < Len(x) THEN b ELSE Len(x)
    IN SubSeq(x, lo + 1, hi)

\* a / b rounded down in place of math.ceil
Floor(a, b) == a \div b

\* math.ceil(a / b) for a >= 0, b > 0
Ceil(a, b) == (a + b - 1) \div b

\* MoleculeDataset.shuffle: the data and the generator state afterwards
DatasetShuffle(d, r, seed) == RandomShuffle(d, Reseed(r, seed))

\* Lines 126-130 with the slice end taken as inclusive
ChunkSlicesInclusive(d, num_chunks) ==
    LET chunk_len == Ceil(Len(d), num_chunks)
    IN [k \in 1..num_chunks
          |-> MoleculeDataset(Slice(d, (k - 1) * chunk_len, k * chunk_len + 1))]

\* Lines 126-130 on the shuffled data
ChunkSlices(d, num_chunks) ==
    LET chunk_len == Ceil(Len(d), num_chunks)
    IN [k \in 1..num_chunks
          |-> MoleculeDataset(Slice(d, (k - 1) * chunk_len, k * chunk_len))]

\* d.features.reshape(1, -1)
Reshape1(a) == Array(<<1, Len(a.vals)>>, a.vals)

\* Lines 136-145: the scaler normalize_features uses
ResolveScaler(d, cached, scaler_arg) ==
    IF scaler_arg # None THEN scaler_arg
    ELSE IF cached # None THEN cached
    ELSE Some(ScalerFit([k \in 1..Len(d) |-> d[k].features[1].vals], ReplaceNanToken))

\* Lines 147-148: every record's features replaced by their transform
TransformAll(d, sc) ==
    [k \in 1..Len(d)
       |-> [d[k] EXCEPT !.features =
              Some(Array(<<1, Len(d[k].features[1].vals)>>,
                         ScalerTransform(sc, Reshape1(d[k].features[1]).vals)))]]

\* set_targets without the assertion of line 152: the loop runs until the
\* shorter of the two sequences is exhausted
SetTargetsLoopOnly(d, targets) ==
    [data |-> [k \in 1..Len(d)
                 |-> IF k <= Len(targets) THEN DatapointSetTargets(d[k], targets[k])
                     ELSE d[k]],
     raised |-> IF Len(targets) < Len(d) THEN "IndexError" ELSE "none"]

\* MoleculeDataset.set_targets: the data afterwards and the exception raised
DatasetSetTargets(d, targets) ==
    IF Len(d) # Len(targets)
    THEN [data |-> d, raised |-> "AssertionError"]
    ELSE [data |-> [k \in 1..Len(d) |-> DatapointSetTargets(d[k], targets[k])],
          raised |-> "none"]

NoOp ==
    [op |-> "none", seed |-> None, num_chunks |-> 0, scaler_arg |-> None,
     targets_arg |-> <<>>, pre |-> <<>>, pre_scaler |-> None, rng |-> 0,
     ret |-> Raise("nocall")]

Called(self, call) ==
    /\ last' = [last EXCEPT ![self] = call]
    /\ steps' = steps + 1

\* MoleculeDataset.shuffle
Shuffle(self, seed) ==
    /\ steps < MaxOps
    /\ LET s == DatasetShuffle(data[self], rng, seed)
       IN /\ data' = [data EXCEPT ![self] = s.list]
          /\ rng' = s.rng
          /\ Called(self, [NoOp EXCEPT !.op = "shuffle", !.seed = seed,
                                       !.pre = data[self], !.rng = rng,
                                       !.ret = Return(None)])
    /\ UNCHANGED scaler

\* MoleculeDataset.chunk
Chunk(self, num_chunks, seed) ==
    /\ steps < MaxOps
    /\ LET s == DatasetShuffle(data[self], rng, seed)
       IN /\ data' = [data EXCEPT ![self] = s.list]
          /\ rng' = s.rng
          /\ Called(self, [NoOp EXCEPT !.op = "chunk", !.seed = seed,
                                       !.num_chunks = num_chunks,
                                       !.pre = data[self], !.rng = rng,
                                       !.ret = IF num_chunks = 0
                                               THEN Raise("ZeroDivisionError")
                                               ELSE Return(ChunkSlices(s.list, num_chunks))])
    /\ UNCHANGED scaler

\* MoleculeDataset.normalize_features
NormalizeFeatures(self, scaler_arg) ==
    /\ steps < MaxOps
    /\ LET call == [NoOp EXCEPT !.op = "normalize_features",
                                !.scaler_arg = scaler_arg, !.pre = data[self],
                                !.pre_scaler = scaler[self], !.rng = rng]
       IN IF data[self] = <<>>
          THEN /\ Called(self, [call EXCEPT !.ret = Raise("IndexError")])
               /\ UNCHANGED <<data, scaler>>
          ELSE IF data[self][1].features = None
          THEN /\ Called(self, [call EXCEPT !.ret = Return(None)])
               /\ UNCHANGED <<data, scaler>>
          ELSE LET sc == ResolveScaler(data[self], scaler[self], scaler_arg)
               IN /\ scaler' = [scaler EXCEPT ![self] = sc]
                  /\ data' = [data EXCEPT ![self] = TransformAll(data[self], sc[1])]
                  /\ Called(self, [call EXCEPT !.ret = Return(sc)])
    /\ UNCHANGED rng

\* MoleculeDataset.set_targets
SetTargets(self, targets) ==
    /\ steps < MaxOps
    /\ LET r == DatasetSetTargets(data[self], targets)
       IN /\ data' = [data EXCEPT ![self] = r.data]
          /\ Called(self, [NoOp EXCEPT !.op = "set_targets", !.targets_arg = targets,
                                       !.pre = data[self], !.pre_scaler = scaler[self],
                                       !.rng = rng,
                                       !.ret = IF r.raised = "none" THEN Return(None)
                                               ELSE Raise(r.raised)])
    /\ UNCHANGED <<scaler, rng>>

SmilesPool == <<"C", "CC", "CCC", "CCCC", "CCCCC", "CCCCCC">>

FeatureValues == {0, 2}

FeatureRows(dim) == [1..dim -> FeatureValues]

\* A dataset as the loader builds it: one MoleculeDatapoint per CSV line
Loaded(rows) ==
    [k \in 1..Len(rows)
       |-> MoleculeDatapoint(<<SmilesPool[k], "1">>, None, rows[k], FALSE).value[1]]

Seeds == {None, Some(0), Some(42)}

NewTargets == {ListTargets(<<None>>), ListTargets(<<Some(2)>>)}

GivenScalers(d) ==
    IF d = <<>> \/ d[1].features = None
    THEN {None, Some([means |-> <<1>>, stds |-> <<2>>, replace_nan_token |-> 0])}
    ELSE {None, Some([means |-> [c \in 1..Len(d[1].features[1].vals) |-> 1],
                      stds |-> [c \in 1..Len(d[1].features[1].vals) |-> 2],
                      replace_nan_token |-> 0])}

NextOrder ==
    /\ \E self \in DatasetIds, seed \in Seeds :
          \/ Shuffle(self, seed)
          \/ \E num_chunks \in 0..MaxChunks : Chunk(self, num_chunks, seed)
    /\ UNCHANGED <<sparseVars, datapointVars>>

NextMutate ==
    /\ \/ \E scaler_arg \in GivenScalers(data[1]) : NormalizeFeatures(1, scaler_arg)
       \/ \E targets \in SeqsUpTo(NewTargets, MaxLen + 1) : SetTargets(1, targets)
    /\ UNCHANGED <<sparseVars, datapointVars>>

NoData == [id \in DatasetIds |-> <<>>]
NoScaler == [id \in DatasetIds |-> None]
NoCalls == [id \in DatasetIds |-> NoOp]

\* Two datasets loaded from the same file, features absent
OrderInputs == {[id \in DatasetIds |-> Loaded([k \in 1..n |-> None])] : n \in 0..MaxLen}

\* One loaded dataset; every record has features of the same width, or none has
MutateInputs ==
    {[id \in DatasetIds |-> IF id = 1 THEN Loaded([k \in 1..n |-> None]) ELSE <<>>] :
        n \in 0..MaxLen}
    \cup
    UNION {UNION {{[id \in DatasetIds
                      |-> IF id = 1
                          THEN Loaded([k \in 1..n |-> Some(Array(<<dim>>, rows[k]))])
                          ELSE <<>>] : rows \in [1..n -> FeatureRows(dim)]} :
                     dim \in 1..MaxDim} : n \in 0..MaxLen}

\* A SparseNoneArray built from a list
InitSparse ==
    /\ src \in SeqsUpTo(TargetValues, MaxLen)
    /\ sna = SparseNoneArray(src)
    /\ got = NoCall
    /\ dp = NoDatapointCall
    /\ dpIn = NoDatapointArgs
    /\ data = NoData
    /\ scaler = NoScaler
    /\ rng = 0
    /\ last = NoCalls
    /\ steps = 0

\* The arguments of one MoleculeDatapoint(...) call
InitDatapoint ==
    /\ src = <<>>
    /\ sna = SparseNoneArray(<<>>)
    /\ got = NoCall
    /\ dp = NoDatapointCall
    /\ dpIn \in [line : Lines, args : ArgsSet, features : FeatureArgs,
                 use_compound_names : BOOLEAN]
    /\ data = NoData
    /\ scaler = NoScaler
    /\ rng = 0
    /\ last = NoCalls
    /\ steps = 0

InitOrder ==
    /\ src = <<>>
    /\ sna = SparseNoneArray(<<>>)
    /\ got = NoCall
    /\ dp = NoDatapointCall
    /\ dpIn = NoDatapointArgs
    /\ data \in OrderInputs
    /\ scaler = NoScaler
    /\ rng \in 0..(RngMod - 1)
    /\ last = NoCalls
    /\ steps = 0

InitMutate ==
    /\ src = <<>>
    /\ sna = SparseNoneArray(<<>>)
    /\ got = NoCall
    /\ dp = NoDatapointCall
    /\ dpIn = NoDatapointArgs
    /\ data \in MutateInputs
    /\ scaler = NoScaler
    /\ rng = 0
    /\ last = NoCalls
    /\ steps = 0

SpecSparse == InitSparse /\ [][NextSparse]_vars

SpecDatapoint == InitDatapoint /\ [][NextDatapoint]_vars

SpecOrder == InitOrder /\ [][NextOrder]_vars

SpecMutate == InitMutate /\ [][NextMutate]_vars

----------------------------------------------------------------------------
(* Properties *)

InRange(i) == i \in 0..(Len(src) - 1)

Present == {i \in 0..(Len(src) - 1) : src[i + 1] # None}

\* C4: the array has the length of the list it was built from, and reading
\* any position in range returns the list's entry there, None where the
\* entry is None, whatever reads were made before.
C4_SparseReads ==
    /\ SparseLen(sna) = Len(src)
    /\ \A i \in 0..(Len(src) - 1) :
          /\ SparseGetItem(sna, i).raised = "none"
          /\ SparseGetItem(sna, i).value = src[i + 1]
    /\ (got.raised # "nocall" /\ InRange(got.i)) =>
          (got.raised = "none" /\ got.value = src[got.i + 1])

C4_Witness ==
    /\ got.raised = "none" /\ InRange(got.i) /\ got.value = Some(0)
    /\ \E j \in 0..(Len(src) - 1) : src[j + 1] = None /\ j \in DOMAIN sna.targets

\* C7: a read succeeds exactly at the positions 0..length-1 and raises
\* IndexError at every other integer, negative ones included.
C7_OutOfRangeFails ==
    got.raised # "nocall" =>
        /\ InRange(got.i) => got.raised = "none"
        /\ ~InRange(got.i) => got.raised = "IndexError"

\* C10: reads never change the array: its length stays the length of the
\* source list and the keys of its dict stay the positions of the entries
\* that are not None.
C10_Immutable ==
    /\ sna.length = Len(src)
    /\ DOMAIN sna.targets = Present

Unsupervised == dpIn.args # None /\ dpIn.args[1].dataset_type = "unsupervised"

\* C8: a datapoint constructed with dataset_type "unsupervised" has
\* num_tasks 1 and the plain list [None] as targets, whatever the line,
\* predict_features and sparse are.
C8_Unsupervised ==
    (dp.raised = "none" /\ Unsupervised) =>
        /\ dp.value[1].num_tasks = 1
        /\ dp.value[1].targets.type = "list"
        /\ dp.value[1].targets.list = <<None>>

C8_Witness ==
    /\ dp.raised = "none" /\ Unsupervised
    /\ dpIn.args[1].sparse /\ dpIn.args[1].predict_features
    /\ Len(dpIn.line) = MaxFields /\ dpIn.line[MaxFields] = "C"

BothGiven ==
    /\ dpIn.features # None
    /\ dpIn.args # None
    /\ dpIn.args[1].features_generator # None
    /\ dpIn.args[1].features_generator[1] # <<>>

\* C9: a construction given both a feature array and a non-empty generator
\* list raises ValueError and yields no object, whatever the other
\* arguments are.
C9_BothFeaturesRejected ==
    (dp # NoDatapointCall /\ BothGiven) =>
        (dp.raised = "ValueError" /\ dp.value = None)

C9_Witness ==
    /\ dp.raised = "ValueError" /\ BothGiven
    /\ Range(dpIn.args[1].features_generator[1]) \subseteq SupportedGenerators
    /\ dpIn.line = <<"C", "1", "">>
    /\ ~dpIn.use_compound_names

ChunkReturned(id) == last[id].op = "chunk" /\ last[id].ret.raised = "none"

Chunks(id) == last[id].ret.value[1]

RECURSIVE ConcatData(_)
ConcatData(datasets) ==
    IF datasets = <<>> THEN <<>>
    ELSE datasets[1].data \o ConcatData(Tail(datasets))

\* C1: the chunks returned by chunk, concatenated in order, are the
\* dataset's records as the shuffle left them; every record is at exactly
\* one position of exactly one chunk.
C1_ChunksPartition ==
    \A id \in DatasetIds :
        ChunkReturned(id) =>
            /\ ConcatData(Chunks(id)) = data[id]
            /\ \A k \in 1..Len(data[id]) :
                  Cardinality({<<c, q>> \in (1..Len(Chunks(id))) \X (1..Len(data[id])) :
                                  /\ q <= Len(Chunks(id)[c].data)
                                  /\ Chunks(id)[c].data[q] = data[id][k]}) = 1

C1_Witness ==
    /\ ChunkReturned(1)
    /\ last[1].num_chunks = 2
    /\ Len(data[1]) = 3
    /\ data[1] # last[1].pre

\* ceil(a / b) stated without the model's own rounding
CeilOf(a, b) == CHOOSE c \in 0..a : c * b >= a /\ (c = 0 \/ (c - 1) * b < a)

Min(a, b) == IF a < b THEN a ELSE b

\* C6 as stated: chunk returns num_chunks datasets and every one of them
\* but the last holds exactly ceil(L / num_chunks) records.
C6_OnlyLastShort ==
    \A id \in DatasetIds :
        ChunkReturned(id) =>
            /\ Len(Chunks(id)) = last[id].num_chunks
            /\ \A k \in 1..(Len(Chunks(id)) - 1) :
                  Len(Chunks(id)[k].data) = CeilOf(Len(data[id]), last[id].num_chunks)

\* C6 amended: chunk returns num_chunks datasets; with c = ceil(L /
\* num_chunks), the k-th of them (from 0) holds min(c, max(0, L - k*c))
\* records, so none holds more than c, and once one is short every later
\* one is empty.
C6_ChunkSizes ==
    \A id \in DatasetIds :
        ChunkReturned(id) =>
            LET c == CeilOf(Len(data[id]), last[id].num_chunks)
            IN /\ Len(Chunks(id)) = last[id].num_chunks
               /\ \A k \in 1..Len(Chunks(id)) :
                     /\ Len(Chunks(id)[k].data) =
                           Min(c, IF Len(data[id]) > (k - 1) * c
                                  THEN Len(data[id]) - (k - 1) * c ELSE 0)
                     /\ Len(Chunks(id)[k].data) <= c
                     /\ (k > 1 /\ Len(Chunks(id)[k - 1].data) < c) =>
                           Len(Chunks(id)[k].data) = 0

C6_Witness ==
    /\ ChunkReturned(1)
    /\ last[1].num_chunks = 3
    /\ Len(data[1]) = 1
    /\ Len(Chunks(1)[2].data) = 0

SameSeededCall(a, b) ==
    /\ last[a].op \in {"shuffle", "chunk"}
    /\ last[a].op = last[b].op
    /\ last[a].seed # None
    /\ last[a].seed = last[b].seed
    /\ last[a].num_chunks = last[b].num_chunks
    /\ last[a].pre = last[b].pre

\* C5: two datasets that held the same records in the same order and were
\* shuffled, or chunked into the same number of chunks, with the same seed
\* end in the same order and with the same chunks, whatever the generator
\* state was before either call.
C5_SeedDeterminism ==
    \A a, b \in DatasetIds :
        SameSeededCall(a, b) => (data[a] = data[b] /\ last[a].ret = last[b].ret)

C5_Witness ==
    /\ SameSeededCall(1, 2)
    /\ last[1].op = "chunk"
    /\ last[1].num_chunks = 2
    /\ last[1].rng # last[2].rng
    /\ Len(last[1].pre) = 3
    /\ data[1] # last[1].pre

FeaturesOf(d) == [k \in 1..Len(d) |-> d[k].features]

TargetsOf(d) == [k \in 1..Len(d) |-> d[k].targets]

HasFeatures(d) == d # <<>> /\ d[1].features # None

\* C2: a second normalize_features() right after a first one, neither given
\* a scaler, keeps the cached scaler and leaves every record's features as
\* the first call left them.
C2_NormalizeIdempotent ==
    [][(/\ last[1].op = "normalize_features"
        /\ last[1].scaler_arg = None
        /\ HasFeatures(data[1])
        /\ steps' = steps + 1
        /\ last'[1].op = "normalize_features"
        /\ last'[1].scaler_arg = None)
       => (/\ scaler'[1] = scaler[1]
           /\ FeaturesOf(data'[1]) = FeaturesOf(data[1]))]_vars

SetTargetsMismatch(id) ==
    last[id].op = "set_targets" /\ Len(last[id].targets_arg) # Len(last[id].pre)

\* C3: set_targets with a list whose length is not the dataset's length
\* raises AssertionError and leaves every record's targets as they were.
C3_SetTargetsMismatch ==
    \A id \in DatasetIds :
        SetTargetsMismatch(id) =>
            /\ last[id].ret.raised = "AssertionError"
            /\ TargetsOf(data[id]) = TargetsOf(last[id].pre)
            /\ data[id] = last[id].pre

C3_Witness ==
    /\ SetTargetsMismatch(1)
    /\ last[1].ret.raised = "AssertionError"
    /\ Len(data[1]) = 2
    /\ Len(last[1].targets_arg) = 3
    /\ last[1].targets_arg[1] # data[1][1].targets

====
